---------------------------- MODULE Spec2Model ----------------------------
(***************************************************************************)
(* A model of splitter.py: the topological orderer (order_graph), the      *)
(* subgraph selector (subgraph) and the link extractor (find_links).       *)
(***************************************************************************)
EXTENDS Integers, Sequences, FiniteSets, TLC

(***************************************************************************)
(* Generic helpers for Python's insertion-ordered dicts and lists.         *)
(***************************************************************************)

\* The set of elements of a sequence.
Range(s) == {s[i] : i \in DOMAIN s}

\* reversed(s) / list.reverse()
Reverse(s) == [i \in 1..Len(s) |-> s[Len(s) + 1 - i]]

\* All sequences without repetition over S of length exactly n.
RECURSIVE DistinctSeqsOfLen(_, _)
DistinctSeqsOfLen(S, n) ==
    IF n = 0 THEN {<<>>}
    ELSE UNION {{<<x>> \o t : t \in DistinctSeqsOfLen(S \ {x}, n - 1)} : x \in S}

\* All sequences without repetition over S of length at most n.
DistinctSeqs(S, n) == UNION {DistinctSeqsOfLen(S, k) : k \in 0..n}

\* d with key k deleted (del d[k]) for a dict modelled as a function.
DictDel(d, k) == [x \in (DOMAIN d) \ {k} |-> d[x]]

\* An ordered set (dict with None values) s with element x deleted.
SeqDel(s, x) == SelectSeq(s, LAMBDA y : y # x)

\* The position of x in the sequence s (0 when absent).
IndexOf(s, x) == IF x \in Range(s) THEN CHOOSE i \in DOMAIN s : s[i] = x ELSE 0

(***************************************************************************)
(* Bounds of the model.                                                    *)
(***************************************************************************)

\* Largest total number of links of a link graph given to order_graph.
MaxEdges == 3

(***************************************************************************)
(* Passage names.                                                          *)
(***************************************************************************)

\* The names order_graph tries, in this order, to break a cycle.
CycleBreakers ==
    << "Makeover Options",
       "Rosalind actions",
       "Ask Billy what he and Mr. Anderson talked about last night.",
       "Go to the arcade." >>

\* The passage names of the model's link graphs, in the order Python's
\* sorted() gives them (str comparison): two of the cycle breakers, whose
\* order in CycleBreakers is the reverse of their sorted order, and two
\* ordinary names.
SortedNames ==
    << "Ask Billy what he and Mr. Anderson talked about last night.",
       "Introduction",
       "Makeover Options",
       "Start" >>

Names == Range(SortedNames)

\* sorted(S) for a set S of names.
Sorted(S) == SelectSeq(SortedNames, LAMBDA n : n \in S)

(***************************************************************************)
(* Link graphs: a dict name -> ordered set of link targets, modelled as    *)
(* [order |-> the keys in insertion order, links |-> name -> targets].     *)
(***************************************************************************)

\* All assignments of link lists (targets among `targets`, no repetition)
\* to the keys in `keys`, with at most `budget` links in total.
RECURSIVE LinkMaps(_, _, _)
LinkMaps(keys, targets, budget) ==
    IF keys = {} THEN {<<>>}
    ELSE LET k == CHOOSE x \in keys : TRUE
         IN  UNION {{(k :> ls) @@ m :
                        m \in LinkMaps(keys \ {k}, targets, budget - Len(ls))} :
                    ls \in DistinctSeqs(targets, budget)}

\* g is a link graph of the model: any of the names as keys, in any order,
\* at most MaxEdges links, and every link target a key of the graph.
IsLinkGraph(g) ==
    \E ks \in DistinctSeqs(Names, Cardinality(Names)) :
        \E m \in LinkMaps(Range(ks), Range(ks), MaxEdges) :
            g = [order |-> ks, links |-> m]

VARIABLES
    pc,             \* where order_graph is: "start", "loop", "done"
    link_to,        \* order_graph's argument
    link_from,      \* the inverse link graph: name -> the names still linking to it
    ready,          \* the stack of ready names, the top at the end
    ordered_names,  \* the names emitted so far
    forced,         \* history: the cycle breakers force-readied so far
    reported,       \* whether the "Reachable/Unreachable" report was printed
    sg_pc,          \* where subgraph is: "start", "loop", "done"
    graph,          \* subgraph's arguments: name -> link targets,
    starts,         \*   the list of names to start from,
    limits,         \*   the names not to link to
    remaining,      \* subgraph's dict of names still to visit
    reached,        \* subgraph's dict of names visited
    fl_pc,          \* where find_links is: "start", "scan", "done", "failed"
    body,           \* find_links' argument: the lines of a passage
    pos,            \* split_body's position in the joined body
    events          \* what find_links yielded and printed so far, in order

\* The state of order_graph, of subgraph and of find_links.
ovars == <<pc, link_to, link_from, ready, ordered_names, forced, reported>>
svars == <<sg_pc, graph, starts, limits, remaining, reached>>
fvars == <<fl_pc, body, pos, events>>

vars == <<ovars, svars, fvars>>

\* No call of order_graph, of subgraph, of find_links is under way.
OrderIdle ==
    /\ pc = "idle"
    /\ link_to = [order |-> <<>>, links |-> <<>>]
    /\ link_from = <<>>
    /\ ready = <<>>
    /\ ordered_names = <<>>
    /\ forced = <<>>
    /\ reported = FALSE

SubgraphIdle ==
    /\ sg_pc = "idle"
    /\ graph = <<>>
    /\ starts = <<>>
    /\ limits = {}
    /\ remaining = [order |-> <<>>, links |-> <<>>]
    /\ reached = [order |-> <<>>, links |-> <<>>]

FindLinksIdle ==
    /\ fl_pc = "idle"
    /\ body = <<>>
    /\ pos = 0
    /\ events = <<>>

(***************************************************************************)
(* order_graph                                                             *)
(***************************************************************************)

\* InverseGraph recording, for each name, only the first name linking to it.
InverseGraphFirstOnly(g) ==
    [n \in Range(g.order) |->
        LET all == SelectSeq(g.order, LAMBDA src : n \in Range(g.links[src]))
        IN  IF all = <<>> THEN <<>> ELSE <<Head(all)>>]

\* Lines 261-264: the inverse graph, each name with the names linking to it
\* in the order the links are met.
InverseGraph(g) ==
    [n \in Range(g.order) |->
        SelectSeq(g.order, LAMBDA src : n \in Range(g.links[src]))]

\* RemoveLinks readying a link as soon as one of the names linking to it
\* is emitted, whoever else still links to it.
RECURSIVE RemoveLinksEager(_, _, _, _)
RemoveLinksEager(name, links, lf, rdy) ==
    IF links = <<>> THEN [link_from |-> lf, ready |-> rdy]
    ELSE LET link == Head(links)
         IN  IF link \notin DOMAIN lf
             THEN RemoveLinksEager(name, Tail(links), lf, rdy)
             ELSE RemoveLinksEager(name, Tail(links), DictDel(lf, link),
                                   Append(rdy, link))

\* Lines 297-303: for each link of the popped name, in the order given,
\* drop the name from the link's waiting set and ready the link when the
\* set empties.
RECURSIVE RemoveLinks(_, _, _, _)
RemoveLinks(name, links, lf, rdy) ==
    IF links = <<>> THEN [link_from |-> lf, ready |-> rdy]
    ELSE LET link == Head(links)
         IN  IF link \notin DOMAIN lf
             THEN RemoveLinks(name, Tail(links), lf, rdy)
             ELSE LET waiting_on == SeqDel(lf[link], name)
                  IN  IF waiting_on = <<>>
                      THEN RemoveLinks(name, Tail(links), DictDel(lf, link),
                                       Append(rdy, link))
                      ELSE RemoveLinks(name, Tail(links),
                                       [lf EXCEPT ![link] = waiting_on], rdy)

\* PopAndRelease walking the links in insertion order, not reversed.
PopAndReleaseForward(lf, rdy) ==
    LET name == rdy[Len(rdy)]
        rest == SubSeq(rdy, 1, Len(rdy) - 1)
    IN  [name |-> name,
         after |-> RemoveLinks(name, link_to.links[name], lf, rest)]

\* Lines 293-303: pop the top of the stack, emit it, release its links.
PopAndRelease(lf, rdy) ==
    LET name == rdy[Len(rdy)]
        rest == SubSeq(rdy, 1, Len(rdy) - 1)
    IN  [name |-> name,
         after |-> RemoveLinks(name, Reverse(link_to.links[name]), lf, rest)]

\* Lines 280-289: the first cycle breaker that still waits, as a set
\* (empty when none does).
FirstBreaker(lf) ==
    LET found == SelectSeq(CycleBreakers, LAMBDA n : n \in DOMAIN lf)
    IN  IF found = <<>> THEN {} ELSE {Head(found)}

Init ==
    /\ pc = "start"
    /\ IsLinkGraph(link_to)
    /\ link_from = <<>>
    /\ ready = <<>>
    /\ ordered_names = <<>>
    /\ forced = <<>>
    /\ reported = FALSE
    /\ SubgraphIdle
    /\ FindLinksIdle

\* Lines 261-276: build the inverse graph and the initial stack.
BuildInverse ==
    /\ pc = "start"
    /\ LET inv == InverseGraph(link_to)
           first == SelectSeq(link_to.order, LAMBDA n : inv[n] = <<>>)
       IN  /\ ready' = Reverse(first)
           /\ link_from' = [n \in Range(link_to.order) \ Range(first) |-> inv[n]]
    /\ ordered_names' = <<>>
    /\ pc' = "loop"
    /\ UNCHANGED <<link_to, forced, reported>>
    /\ UNCHANGED <<svars, fvars>>

\* Lines 277-303 with a non-empty stack: one iteration of the loop.
LoopPop ==
    /\ pc = "loop"
    /\ ready # <<>>
    /\ LET r == PopAndRelease(link_from, ready)
       IN  /\ ordered_names' = Append(ordered_names, r.name)
           /\ link_from' = r.after.link_from
           /\ ready' = r.after.ready
    /\ UNCHANGED <<pc, link_to, forced, reported>>
    /\ UNCHANGED <<svars, fvars>>

\* LoopBreakCycle leaving the breaker in link_from (no del link_from[name]).
LoopBreakCycleKeepsBreaker ==
    /\ pc = "loop"
    /\ ready = <<>>
    /\ \E name \in FirstBreaker(link_from) :
          LET r == PopAndRelease(link_from, <<name>>)
          IN  /\ ordered_names' = Append(ordered_names, r.name)
              /\ link_from' = r.after.link_from
              /\ ready' = r.after.ready
              /\ forced' = Append(forced, name)
    /\ UNCHANGED <<pc, link_to, reported>>
    /\ UNCHANGED <<svars, fvars>>

\* LoopBreakCycle without the test that the stack is empty.
LoopBreakCycleEarly ==
    /\ pc = "loop"
    /\ \E name \in FirstBreaker(link_from) :
          LET r == PopAndRelease(DictDel(link_from, name), <<name>>)
          IN  /\ ordered_names' = Append(ordered_names, r.name)
              /\ link_from' = r.after.link_from
              /\ ready' = r.after.ready
              /\ forced' = Append(forced, name)
    /\ UNCHANGED <<pc, link_to, reported>>
    /\ UNCHANGED <<svars, fvars>>

\* Lines 277-303 with an empty stack and a cycle breaker waiting: the
\* breaker is force-readied, then popped in the same iteration.
LoopBreakCycle ==
    /\ pc = "loop"
    /\ ready = <<>>
    /\ \E name \in FirstBreaker(link_from) :
          LET r == PopAndRelease(DictDel(link_from, name), <<name>>)
          IN  /\ ordered_names' = Append(ordered_names, r.name)
              /\ link_from' = r.after.link_from
              /\ ready' = r.after.ready
              /\ forced' = Append(forced, name)
    /\ UNCHANGED <<pc, link_to, reported>>
    /\ UNCHANGED <<svars, fvars>>

\* LoopExit reporting what is left without appending it.
LoopExitDropsRest ==
    /\ pc = "loop"
    /\ ready = <<>>
    /\ FirstBreaker(link_from) = {}
    /\ reported' = (DOMAIN link_from # {})
    /\ pc' = "done"
    /\ UNCHANGED <<link_to, link_from, ready, ordered_names, forced>>
    /\ UNCHANGED <<svars, fvars>>

\* LoopExit printing the report whenever a cycle breaker was force-readied.
LoopExitReportsForced ==
    /\ pc = "loop"
    /\ ready = <<>>
    /\ FirstBreaker(link_from) = {}
    /\ reported' = (DOMAIN link_from # {} \/ forced # <<>>)
    /\ ordered_names' = ordered_names \o Sorted(DOMAIN link_from)
    /\ pc' = "done"
    /\ UNCHANGED <<link_to, link_from, ready, forced>>
    /\ UNCHANGED <<svars, fvars>>

\* Lines 290-291 and 305-317: no breaker waits; leave the loop, report
\* and append what is left, return.
LoopExit ==
    /\ pc = "loop"
    /\ ready = <<>>
    /\ FirstBreaker(link_from) = {}
    /\ reported' = (DOMAIN link_from # {})
    /\ ordered_names' = ordered_names \o Sorted(DOMAIN link_from)
    /\ pc' = "done"
    /\ UNCHANGED <<link_to, link_from, ready, forced>>
    /\ UNCHANGED <<svars, fvars>>

Next ==
    \/ BuildInverse
    \/ LoopPop
    \/ LoopBreakCycle
    \/ LoopExit

Spec == Init /\ [][Next]_vars


\* order_graph's loop is never suspended: fairness of its steps.
FairSpec == Init /\ [][Next]_vars /\ WF_vars(Next)

(***************************************************************************)
(* Graph notions the properties of order_graph are stated with.            *)
(***************************************************************************)

Keys(g) == Range(g.order)

\* The targets of the links leaving the names in S.
Targets(g, S) == UNION {Range(g.links[n]) : n \in S}

RECURSIVE Grow(_, _)
Grow(g, S) ==
    LET T == S \cup Targets(g, S) IN IF T = S THEN S ELSE Grow(g, T)

\* The names reachable from a by one link or more.
ReachPlus(g, a) == Grow(g, Range(g.links[a]))

\* b is reachable from a by following zero or more links.
Reaches(g, a, b) == a = b \/ b \in ReachPlus(g, a)

Acyclic(g) == \A n \in Keys(g) : n \notin ReachPlus(g, n)

\* The graph without the name x and the links to it.
GraphWithout(g, x) ==
    [order |-> SeqDel(g.order, x),
     links |-> [n \in Keys(g) \ {x} |-> SeqDel(g.links[n], x)]]

\* a is somewhere before b in the sequence s.
Before(s, a, b) ==
    \E i, j \in DOMAIN s : i < j /\ s[i] = a /\ s[j] = b

\* Every link a -> b of the graph.
Edges(g) == {<<a, b>> : a \in Keys(g), b \in Keys(g)} \cap
            {e \in Names \X Names : e[2] \in Range(g.links[e[1]])}

\* The cycle breakers among the keys of the graph.
BreakersIn(g) == Range(CycleBreakers) \cap Keys(g)

\* The names left un-ordered when the loop was left.
Remainder == IF pc = "done" THEN DOMAIN link_from ELSE {}

Last(s) == s[Len(s)]

(***************************************************************************)
(* C1.  The sequence order_graph returns is a permutation of the keys of   *)
(* the graph: every key once, nothing else, as many entries as keys.       *)
(***************************************************************************)
C1_OutputIsPermutation ==
    pc = "done" =>
        /\ Len(ordered_names) = Cardinality(Keys(link_to))
        /\ Range(ordered_names) = Keys(link_to)
        /\ \A i, j \in DOMAIN ordered_names :
              ordered_names[i] = ordered_names[j] => i = j

\* A four-name cyclic graph, one cycle broken by force, one left over.
C1_Witness ==
    /\ pc = "done"
    /\ Len(link_to.order) = 4
    /\ forced # <<>>
    /\ Remainder # {}
    /\ ~Acyclic(link_to)

(***************************************************************************)
(* C2.  For an acyclic graph the output has A before B for every link      *)
(* A -> B, whatever the key order, the link order and the names.           *)
(***************************************************************************)
C2_AcyclicLinksRespected ==
    (pc = "done" /\ Acyclic(link_to)) =>
        \A e \in Edges(link_to) : Before(ordered_names, e[1], e[2])

\* An acyclic graph with a cycle breaker that two names link to.
C2_Witness ==
    /\ pc = "done"
    /\ Acyclic(link_to)
    /\ \E b \in BreakersIn(link_to) :
          Cardinality({e \in Edges(link_to) : e[2] = b}) = 2
    /\ link_to.order[1] \in BreakersIn(link_to)

(***************************************************************************)
(* C3 as claimed.  Every link A -> B that lies on no cycle (B cannot reach *)
(* A) has A before B in the output, for any graph.                         *)
(***************************************************************************)
C3_EveryAcyclicLinkRespected ==
    pc = "done" =>
        \A e \in Edges(link_to) :
            ~Reaches(link_to, e[2], e[1]) => Before(ordered_names, e[1], e[2])

\* A name no cycle reaches: it and its ancestors lie on no cycle.
CycleFree(g, a) ==
    \A n \in Keys(g) : Reaches(g, n, a) => n \notin ReachPlus(g, n)

(***************************************************************************)
(* C3 amended.  A link A -> B has A before B in the output when B was      *)
(* emitted from the ready stack without being force-readied, and also when *)
(* no cycle reaches A.                                                     *)
(***************************************************************************)
C3_ReadiedLinksRespected ==
    pc = "done" =>
        \A e \in Edges(link_to) :
            \/ e[2] \in Remainder
            \/ e[2] \in Range(forced)
            \/ Before(ordered_names, e[1], e[2])

C3_CycleFreeSourcesRespected ==
    pc = "done" =>
        \A e \in Edges(link_to) :
            CycleFree(link_to, e[1]) => Before(ordered_names, e[1], e[2])

C3_SatisfiedLinksRespected ==
    C3_ReadiedLinksRespected /\ C3_CycleFreeSourcesRespected

\* A force-readied breaker, a link whose target was readied the ordinary
\* way, and a link from a cycle-free name to the force-readied breaker.
C3_Witness ==
    /\ pc = "done"
    /\ forced # <<>>
    /\ \E e \in Edges(link_to) :
          /\ e[2] \notin Remainder
          /\ e[2] \notin Range(forced)
          /\ e[1] \in Range(forced)
    /\ \E e \in Edges(link_to) :
          /\ CycleFree(link_to, e[1])
          /\ e[2] \in Range(forced)

(***************************************************************************)
(* C6.  order_graph terminates on every link graph: each iteration of the  *)
(* loop emits exactly one name that was not emitted before, so there are   *)
(* at most as many iterations as names, and the function returns.          *)
(***************************************************************************)
C6_IterationEmitsNewName ==
    (pc = "loop" /\ pc' = "loop") =>
        \E n \in Keys(link_to) \ Range(ordered_names) :
            ordered_names' = Append(ordered_names, n)

C6_Terminates ==
    /\ [][C6_IterationEmitsNewName]_vars
    /\ [](Len(ordered_names) <= Cardinality(Keys(link_to)))
    /\ <>(pc = "done")

\* Returned with names left over: one that links to itself and one that
\* is on or behind a cycle no breaker could be forced for.
C6_Witness ==
    /\ pc = "done"
    /\ \E n \in Remainder : n \in Range(link_to.links[n])
    /\ \E n \in Remainder : n \notin Range(link_to.links[n])

(***************************************************************************)
(* C7.  When exactly one cycle breaker X is a key of the graph and every   *)
(* cycle passes through X: every name is emitted from the ready stack      *)
(* (nothing is left for the sorted remainder), X is force-readied only     *)
(* with the stack empty, only X's incoming links are discarded, and every  *)
(* link A -> B with B # X has A before B in the output.                    *)
(***************************************************************************)
SoleBreaker(g) ==
    {x \in BreakersIn(g) : BreakersIn(g) = {x} /\ Acyclic(GraphWithout(g, x))}

C7_ForceStep(x) ==
    forced' # forced =>
        /\ ready = <<>>
        /\ forced = <<>>
        /\ forced' = <<x>>
        /\ \A n \in (DOMAIN link_from) \ {x} :
              IF SeqDel(link_from[n], x) = <<>>
              THEN n \in Range(ready') /\ n \notin DOMAIN link_from'
              ELSE n \in DOMAIN link_from'
                   /\ link_from'[n] = SeqDel(link_from[n], x)

C7_Done(x) ==
    pc = "done" =>
        /\ Remainder = {}
        /\ ~reported
        /\ \A e \in Edges(link_to) :
              e[2] # x => Before(ordered_names, e[1], e[2])

C7_SoleBreakerOrdersAll ==
    /\ [](\A x \in SoleBreaker(link_to) : C7_Done(x))
    /\ [][\A x \in SoleBreaker(link_to) : C7_ForceStep(x)]_vars

\* A graph of three links, none a self-link, with a cycle through the
\* breaker, ordered completely by force-readying the breaker.
C7_Witness ==
    /\ pc = "done"
    /\ SoleBreaker(link_to) # {}
    /\ forced # <<>>
    /\ Cardinality(Edges(link_to)) = 3
    /\ \A n \in Keys(link_to) : n \notin Range(link_to.links[n])
    /\ Head(forced) \in ReachPlus(link_to, Head(forced))

(***************************************************************************)
(* C8 as claimed.  Whenever order_graph completes an ordering by           *)
(* force-readying a cycle breaker, a diagnostic is emitted.                *)
(***************************************************************************)
C8_ForceReadyIsReported ==
    (pc = "done" /\ forced # <<>>) => reported

\* {A: [B], B: [C], C: [A]} with A a cycle breaker.
ExampleLoop ==
    [order |-> <<"Makeover Options", "Introduction", "Start">>,
     links |-> ("Makeover Options" :> <<"Introduction">>) @@
               ("Introduction" :> <<"Start">>) @@
               ("Start" :> <<"Makeover Options">>)]

(***************************************************************************)
(* C8 amended.  Force-readying a cycle breaker emits no diagnostic: the    *)
(* report is printed exactly when names are left un-ordered after the      *)
(* loop.  For {A: [B], B: [C], C: [A]} with A a cycle breaker the result   *)
(* is [A, B, C], by force-readying A, and nothing is reported.             *)
(***************************************************************************)
C8_ReportedIffRemainder ==
    pc = "done" =>
        /\ reported <=> (Remainder # {})
        /\ link_to = ExampleLoop =>
              /\ ordered_names = <<"Makeover Options", "Introduction", "Start">>
              /\ forced = <<"Makeover Options">>
              /\ ~reported

C8_Witness ==
    /\ pc = "done"
    /\ link_to = ExampleLoop
    /\ forced # <<>>

(***************************************************************************)
(* C10.  Ready names are emitted last-in-first-out with a fixed tie-break: *)
(* the first name emitted is the first key without incoming link; after N  *)
(* is emitted, the targets N made ready come next, the first of them in    *)
(* N's link order first; otherwise the most recently readied name that     *)
(* still waits is next.                                                    *)
(***************************************************************************)

\* The names linking to t.
SourcesOf(t) == {n \in Keys(link_to) : t \in Range(link_to.links[n])}

\* The keys without incoming link, in key order.
Roots == SelectSeq(link_to.order, LAMBDA n : SourcesOf(n) = {})

SetMax(S) == CHOOSE m \in S : \A k \in S : k <= m

\* The number of names emitted when t became ready: 0 for a root,
\* otherwise the place in the output of the last emitted name linking to t.
ReadiedAt(t) ==
    SetMax({0} \cup {IndexOf(ordered_names, n) : n \in SourcesOf(t)})

\* Among the waiting names, the one readied last; among names readied
\* together, the first in key order (roots) or in the link order of the
\* name whose emission readied them.
MostRecentlyReadied ==
    LET m == SetMax({ReadiedAt(t) : t \in Range(ready)})
        together == {t \in Range(ready) : ReadiedAt(t) = m}
        tiebreak == IF m = 0 THEN link_to.order
                    ELSE link_to.links[ordered_names[m]]
    IN  Head(SelectSeq(tiebreak, LAMBDA t : t \in together))

\* One iteration of the loop.
Emission == pc = "loop" /\ pc' = "loop"

C10_FirstIsFirstRoot ==
    (Emission /\ ordered_names = <<>> /\ Roots # <<>>) =>
        ordered_names' = <<Head(Roots)>>

C10_ReleasedTargetsFirst ==
    (Emission /\ ordered_names # <<>>) =>
        LET released == SelectSeq(link_to.links[Last(ordered_names)],
                                  LAMBDA t : t \in Range(ready))
        IN  released # <<>> => Last(ordered_names') = Head(released)

C10_ElseMostRecent ==
    (Emission /\ ready # <<>>) => Last(ordered_names') = MostRecentlyReadied

C10_LastInFirstOut ==
    /\ [][C10_FirstIsFirstRoot]_vars
    /\ [][C10_ReleasedTargetsFirst]_vars
    /\ [][C10_ElseMostRecent]_vars

\* A name was emitted that readied two targets while a root still waits.
C10_Witness ==
    /\ pc = "loop"
    /\ ordered_names # <<>>
    /\ Len(ready) = 3
    /\ Cardinality(Range(link_to.links[Last(ordered_names)])
                   \cap Range(ready)) = 2

(***************************************************************************)
(* subgraph                                                                *)
(***************************************************************************)

\* Largest total number of links of a graph given to subgraph.
SubMaxEdges == 3

\* Largest length of the list of starts given to subgraph.
MaxStarts == 2

\* The names of the graphs given to subgraph.
SubNames == {"S", "M", "X"}

\* {S: [M, X], M: [E], X: [E], E: []}
ExampleGraph ==
    ("S" :> <<"M", "X">>) @@ ("M" :> <<"E">>) @@ ("X" :> <<"E">>) @@
    ("E" :> <<>>)

\* All sequences over S of length at most n.
BoundedSeqs(S, n) == UNION {[1..k -> S] : k \in 0..n}

\* An insertion-ordered dict: d[k] = v keeps the place of a key already in
\* d and appends a new key.
EmptyDict == [order |-> <<>>, links |-> <<>>]

DictPut(d, k, v) ==
    [order |-> IF k \in Range(d.order) THEN d.order ELSE Append(d.order, k),
     links |-> (k :> v) @@ d.links]

DictPop(d, k) == [order |-> SeqDel(d.order, k), links |-> DictDel(d.links, k)]

\* filter_links without the test against limits.
FilterLinksKeepsAll(links) == links

\* Lines 185-186: the links that do not point to a name in limits.
FilterLinks(links) == SelectSeq(links, LAMBDA link : link \notin limits)

\* Line 188: the dict of the starts, each with its filtered links.
RECURSIVE StartDict(_, _)
StartDict(names, d) ==
    IF names = <<>> THEN d
    ELSE StartDict(Tail(names),
                   DictPut(d, Head(names), FilterLinks(graph[Head(names)])))

\* Lines 194-196 storing the links of a newly met name unfiltered.
RECURSIVE AddLinksUnfiltered(_, _, _)
AddLinksUnfiltered(links, rem, rch) ==
    IF links = <<>> THEN rem
    ELSE LET link == Head(links)
         IN  IF link \notin Range(rch.order)
             THEN AddLinksUnfiltered(Tail(links),
                                     DictPut(rem, link, graph[link]), rch)
             ELSE AddLinksUnfiltered(Tail(links), rem, rch)

\* Lines 194-196: every link that is not reached yet is put in remaining.
RECURSIVE AddLinks(_, _, _)
AddLinks(links, rem, rch) ==
    IF links = <<>> THEN rem
    ELSE LET link == Head(links)
         IN  IF link \notin Range(rch.order)
             THEN AddLinks(Tail(links),
                           DictPut(rem, link, FilterLinks(graph[link])), rch)
             ELSE AddLinks(Tail(links), rem, rch)

\* The arguments of the model: a graph over SubNames with at most
\* SubMaxEdges links, any list of at most MaxStarts starts (repetitions
\* allowed), any set of limits; and the documented example.
SubgraphInit ==
    /\ sg_pc = "start"
    /\ \/ /\ graph \in LinkMaps(SubNames, SubNames, SubMaxEdges)
          /\ starts \in BoundedSeqs(SubNames, MaxStarts)
          /\ limits \in SUBSET SubNames
       \/ /\ graph = ExampleGraph
          /\ starts = <<"S">>
          /\ limits = {"X"}
    /\ remaining = EmptyDict
    /\ reached = EmptyDict
    /\ OrderIdle
    /\ FindLinksIdle

\* Lines 188-189.
SubgraphStart ==
    /\ sg_pc = "start"
    /\ remaining' = StartDict(starts, EmptyDict)
    /\ reached' = EmptyDict
    /\ sg_pc' = "loop"
    /\ UNCHANGED <<graph, starts, limits>>
    /\ UNCHANGED <<ovars, fvars>>

\* Lines 190-196: one iteration: the first remaining name is reached and
\* its links not reached yet are put in remaining.
SubgraphVisit ==
    /\ sg_pc = "loop"
    /\ remaining.order # <<>>
    /\ LET name == Head(remaining.order)
           links == remaining.links[name]
           rch == DictPut(reached, name, links)
       IN  /\ reached' = rch
           /\ remaining' = AddLinks(links, DictPop(remaining, name), rch)
    /\ UNCHANGED <<sg_pc, graph, starts, limits>>
    /\ UNCHANGED <<ovars, fvars>>

\* Lines 190 and 197: nothing remains; return reached.
SubgraphReturn ==
    /\ sg_pc = "loop"
    /\ remaining.order = <<>>
    /\ sg_pc' = "done"
    /\ UNCHANGED <<graph, starts, limits, remaining, reached>>
    /\ UNCHANGED <<ovars, fvars>>

SubgraphNext ==
    \/ SubgraphStart
    \/ SubgraphVisit
    \/ SubgraphReturn

SubgraphSpec == SubgraphInit /\ [][SubgraphNext]_vars

(***************************************************************************)
(* Properties of subgraph.                                                 *)
(***************************************************************************)

\* Which links a chain may follow: those whose target is not in limits,
\* those whose source is not in limits, or those whose target is not in
\* limits and whose source is a start or not in limits.
Follows(rule, a, b) ==
    CASE rule = "target not limit" -> b \notin limits
      [] rule = "source not limit" -> a \notin limits
      [] rule = "source start or not limit" ->
            (a \in Range(starts) \/ a \notin limits) /\ b \notin limits

\* The least set holding the names in S and the target of every link
\* a -> b of the graph with a in the set that the rule lets follow.
RECURSIVE LinkClosure(_, _)
LinkClosure(S, rule) ==
    LET T == S \cup {b \in DOMAIN graph :
                        \E a \in S : b \in Range(graph[a]) /\ Follows(rule, a, b)}
    IN  IF T = S THEN S ELSE LinkClosure(T, rule)

IsExample == graph = ExampleGraph /\ starts = <<"S">> /\ limits = {"X"}

(***************************************************************************)
(* C4.  The keys of the result are the starts and every name reachable     *)
(* from a start by links whose target is not in limits; each key has its   *)
(* links of the graph without the targets in limits; so no link of the     *)
(* result points to a limit and every link target is a key of the result.  *)
(* The example gives the keys S, M, E, and S does not link to X.           *)
(***************************************************************************)
C4_SubgraphIsBoundedClosure ==
    sg_pc = "done" =>
        /\ Range(reached.order) = LinkClosure(Range(starts), "target not limit")
        /\ DOMAIN reached.links = Range(reached.order)
        /\ Len(reached.order) = Cardinality(Range(reached.order))
        /\ \A k \in Range(reached.order) :
              /\ reached.links[k] =
                    SelectSeq(graph[k], LAMBDA t : t \notin limits)
              /\ Range(reached.links[k]) \cap limits = {}
              /\ Range(reached.links[k]) \subseteq Range(reached.order)
        /\ IsExample =>
              /\ Range(reached.order) = {"S", "M", "E"}
              /\ "X" \notin Range(reached.links["S"])

C4_Witness ==
    /\ sg_pc = "done"
    /\ IsExample
    /\ reached.links["S"] = <<"M">>

(***************************************************************************)
(* C5 as claimed.  For every choice of starts and limits a name is in the  *)
(* result only if it is a start or is reached by a chain of links each of  *)
(* which leaves a name that is not in limits.                              *)
(***************************************************************************)
C5_LimitLinksNeverExplored ==
    sg_pc = "done" =>
        Range(reached.order) \subseteq LinkClosure(Range(starts), "source not limit")

(***************************************************************************)
(* C5 amended.  The links of a name in limits are explored only when the   *)
(* name is listed in starts: a name is in the result only if it is a start *)
(* or is reached by a chain of links each of which leaves a start or a     *)
(* name not in limits and points to a name not in limits; a name visited   *)
(* or waiting to be visited is in limits only if it is a start.            *)
(***************************************************************************)
C5_OnlyStartLimitsExplored ==
    /\ \A n \in Range(reached.order) \cup Range(remaining.order) :
          n \in limits => n \in Range(starts)
    /\ sg_pc = "done" =>
          Range(reached.order) \subseteq
              LinkClosure(Range(starts), "source start or not limit")

\* A start that is a limit, with a link that was followed, and another
\* limit that a link of the graph points to and that was left out.
C5_Witness ==
    /\ sg_pc = "done"
    /\ \E s \in Range(starts) \cap limits :
          \E t \in Range(reached.order) \ Range(starts) :
              t \in Range(graph[s])
    /\ \E n \in Range(reached.order) :
          \E l \in limits \ Range(reached.order) : l \in Range(graph[n])

(***************************************************************************)
(* find_links: text is a sequence of one-character strings, positions are  *)
(* counted from 0 as in Python.                                            *)
(***************************************************************************)

\* Largest number of pieces a passage body of the model is made of.
MaxPieces == 4

\* The pieces the bodies of the model are made of: the four markers, a
\* pipe, a letter, a display macro's content, a click macro's name, a
\* quoted argument, and a line break.
Pieces ==
    << <<"[", "[">>,
       <<"]", "]">>,
       <<"<", "<">>,
       <<">", ">">>,
       <<"|">>,
       <<"a">>,
       <<"d", "i", "s", "p", "l", "a", "y", " ", "\"", "b", "\"">>,
       <<"c", "l", "i", "c", "k", " ">>,
       <<"\"", "c", "\"">>,
       <<"\n">> >>

RECURSIVE Flatten(_)
Flatten(ss) == IF ss = <<>> THEN <<>> ELSE Head(ss) \o Flatten(Tail(ss))

\* The lines of a text: str.splitlines on "\n", the text of no line being
\* one empty line.
RECURSIVE LinesOf(_, _)
LinesOf(text, line) ==
    IF text = <<>> THEN <<line>>
    ELSE IF Head(text) = "\n" THEN <<line>> \o LinesOf(Tail(text), <<>>)
    ELSE LinesOf(Tail(text), Append(line, Head(text)))

\* "\n".join(lines)
RECURSIVE Join(_)
Join(lines) ==
    IF lines = <<>> THEN <<>>
    ELSE IF Len(lines) = 1 THEN lines[1]
    ELSE lines[1] \o <<"\n">> \o Join(Tail(lines))

\* text[a:b]
Slice(text, a, b) == SubSeq(text, a + 1, b)

\* text.find(sub, from): the first position at or after `from` where sub
\* occurs, -1 when there is none.
Find(text, sub, from) ==
    LET hits == {i \in from..(Len(text) - Len(sub)) :
                    Slice(text, i, i + Len(sub)) = sub}
    IN  IF hits = {} THEN -1 ELSE CHOOSE i \in hits : \A j \in hits : i <= j

\* What find_links yields and prints.
LinkEvent(target) == [kind |-> "link", text |-> target]
IncompleteLink(rest) == [kind |-> "incomplete link", text |-> rest]
IncompleteMacro(rest) == [kind |-> "incomplete macro", text |-> rest]

\* Lines 167-172: the target of the link text between [[ and ]].
LinkTarget(link) ==
    LET sep == Find(link, <<"|">>, 0)
    IN  IF sep = -1 THEN link ELSE Slice(link, sep + 1, Len(link))

\* Lines 157-173: the links of a text from position p on, and the report
\* of an incomplete link, after which the function returns.
RECURSIVE FindLinksInText(_, _)
FindLinksInText(text, p) ==
    LET start == Find(text, <<"[", "[">>, p)
        end == Find(text, <<"]", "]">>, start)
    IN  IF start = -1 THEN <<>>
        ELSE IF end = -1
        THEN <<IncompleteLink(Slice(text, start, Len(text)))>>
        ELSE <<LinkEvent(LinkTarget(Slice(text, start + 2, end)))>>
             \o FindLinksInText(text, end + 2)

IsSpace(c) == c \in {" ", "\n", "\t"}

\* Line 131, re_macro_arg.findall: from position i (counted from 1) on,
\* the tokens [^"\[\s]+ or "[^"]*" or \[\[[^\]]*\]\], tried in this order
\* at each position, a position where none matches being skipped.
RECURSIVE MacroArgs(_, _)
MacroArgs(s, i) ==
    IF i > Len(s) THEN <<>>
    ELSE IF ~IsSpace(s[i]) /\ s[i] \notin {"\"", "["}
    THEN LET stops == {k \in i..Len(s) : IsSpace(s[k]) \/ s[k] \in {"\"", "["}}
             j == IF stops = {} THEN Len(s) + 1
                  ELSE CHOOSE k \in stops : \A m \in stops : k <= m
         IN  <<SubSeq(s, i, j - 1)>> \o MacroArgs(s, j)
    ELSE IF s[i] = "\""
    THEN LET quotes == {k \in (i + 1)..Len(s) : s[k] = "\""}
             j == CHOOSE k \in quotes : \A m \in quotes : k <= m
         IN  IF quotes = {} THEN MacroArgs(s, i + 1)
             ELSE <<SubSeq(s, i, j)>> \o MacroArgs(s, j + 1)
    ELSE IF s[i] = "[" /\ i + 1 <= Len(s) /\ s[i + 1] = "["
    THEN LET closes == {k \in (i + 2)..Len(s) : s[k] = "]"}
             j == CHOOSE k \in closes : \A m \in closes : k <= m
         IN  IF closes = {} \/ j + 1 > Len(s) \/ s[j + 1] # "]"
             THEN MacroArgs(s, i + 1)
             ELSE <<SubSeq(s, i, j + 1)>> \o MacroArgs(s, j + 2)
    ELSE MacroArgs(s, i + 1)

Quoted(arg) == arg[1] = "\"" /\ arg[Len(arg)] = "\""

Unquote(arg) == SubSeq(arg, 2, Len(arg) - 1)

MacroDisplay == <<"d", "i", "s", "p", "l", "a", "y">>
MacroClick == <<"c", "l", "i", "c", "k">>

\* Lines 134-154: the links of a macro <<...>>; failed when the unpacking,
\* an index or an assertion raises.
FindLinksInMacro(macro) ==
    LET tokens == MacroArgs(Slice(macro, 2, Len(macro) - 2), 1)
        name == Head(tokens)
        args == Tail(tokens)
        Raise == [events |-> <<>>, failed |-> TRUE]
        Yield(evs) == [events |-> evs, failed |-> FALSE]
    IN  IF tokens = <<>> THEN Raise
        ELSE IF name = MacroDisplay
        THEN IF args = <<>> THEN Raise
             ELSE IF ~Quoted(args[1]) THEN Raise
             ELSE Yield(<<LinkEvent(Unquote(args[1]))>>)
        ELSE IF name = MacroClick
        THEN IF args = <<>> THEN Raise
             ELSE IF args[1][1] = "["
             THEN Yield(FindLinksInText(args[1], 0))
             ELSE IF Len(args) > 2 THEN Raise
             ELSE IF ~Quoted(args[Len(args)]) THEN Raise
             ELSE Yield(<<LinkEvent(Unquote(args[Len(args)]))>>)
        ELSE Yield(<<>>)

\* Lines 178-181: the links of one segment of the body.
FindLinksInSegment(segment) ==
    IF Len(segment) >= 2 /\ Slice(segment, 0, 2) = <<"<", "<">>
    THEN FindLinksInMacro(segment)
    ELSE [events |-> FindLinksInText(segment, 0), failed |-> FALSE]

\* Lines 116-128, one iteration of split_body at position p: the text
\* before the next macro and the macro, as find_links handles them in
\* turn; `stop` when the loop is left by a break.
SplitBodyStep(text, p) ==
    LET start == Find(text, <<"<", "<">>, p)
        end == Find(text, <<">", ">">>, start)
        before == IF p < start
                  THEN FindLinksInSegment(Slice(text, p, start)).events
                  ELSE <<>>
        macro == FindLinksInSegment(Slice(text, start, end + 2))
    IN  IF start = -1
        THEN [events |-> FindLinksInSegment(Slice(text, p, Len(text))).events,
              pos |-> p, stop |-> TRUE, failed |-> FALSE]
        ELSE IF end = -1
        THEN [events |->
                  Append(before, IncompleteMacro(Slice(text, start, Len(text)))),
              pos |-> p, stop |-> TRUE, failed |-> FALSE]
        ELSE [events |-> before \o macro.events,
              pos |-> end + 2, stop |-> FALSE, failed |-> macro.failed]

\* The bodies of the model: the lines of at most MaxPieces pieces.
FindLinksInit ==
    /\ fl_pc = "start"
    /\ \E n \in 0..MaxPieces :
          \E ps \in [1..n -> DOMAIN Pieces] :
              body = LinesOf(Flatten([i \in 1..n |-> Pieces[ps[i]]]), <<>>)
    /\ pos = 0
    /\ events = <<>>
    /\ OrderIdle
    /\ SubgraphIdle

\* Lines 177 and 115: the body is joined and split_body starts.
FindLinksStart ==
    /\ fl_pc = "start"
    /\ fl_pc' = "scan"
    /\ pos' = 0
    /\ UNCHANGED <<body, events>>
    /\ UNCHANGED <<ovars, svars>>

\* Lines 116-128 and 178-181: one iteration of split_body, its segments
\* handled by find_links.
FindLinksScan ==
    /\ fl_pc = "scan"
    /\ pos < Len(Join(body))
    /\ LET r == SplitBodyStep(Join(body), pos)
       IN  /\ events' = events \o r.events
           /\ pos' = r.pos
           /\ fl_pc' = IF r.failed THEN "failed"
                       ELSE IF r.stop THEN "done" ELSE "scan"
    /\ UNCHANGED body
    /\ UNCHANGED <<ovars, svars>>

\* Line 116: the end of the body is reached.
FindLinksEnd ==
    /\ fl_pc = "scan"
    /\ pos >= Len(Join(body))
    /\ fl_pc' = "done"
    /\ UNCHANGED <<body, pos, events>>
    /\ UNCHANGED <<ovars, svars>>

FindLinksNext ==
    \/ FindLinksStart
    \/ FindLinksScan
    \/ FindLinksEnd

FindLinksSpec == FindLinksInit /\ [][FindLinksNext]_vars

(***************************************************************************)
(* C9.  Once find_links meets an unterminated span, a << with no later >>  *)
(* or a [[ with no later ]] in the text scanned, the span is reported and  *)
(* the scan of the body is truncated there: no link is yielded after the   *)
(* report, neither from later text nor from a later macro.                 *)
(***************************************************************************)
Incomplete(e) == e.kind \in {"incomplete link", "incomplete macro"}

C9_IncompleteSpanTruncatesBody ==
    \A i \in DOMAIN events :
        Incomplete(events[i]) =>
            \A j \in DOMAIN events : j > i => events[j].kind # "link"

\* The part of C9 the code keeps: the report of an incomplete macro is the
\* last thing find_links does.
IncompleteMacroEndsScan ==
    \A i \in DOMAIN events :
        events[i].kind = "incomplete macro" =>
            i = Len(events) /\ fl_pc = "done"

=============================================================================
